---------------------------- MODULE Spec2Model ----------------------------
(***************************************************************************)
(* Business Lead Finder: the owner/email/niche extraction of               *)
(* src/services/osintService.ts (findOwnerInfo and its helpers) and the    *)
(* batch run control of the App component in the same file (handleRun,     *)
(* handleStop, handleFileUpload), with parseFile of src/utils/fileUtils.ts.*)
(*                                                                         *)
(* Text is a sequence of one-character strings, so that prefix tests,      *)
(* word boundaries and case folding are computed, not assumed.             *)
(***************************************************************************)
EXTENDS Integers, Sequences, FiniteSets, TLC

\* ---------------------------------------------------------------- text

UpperLetters == <<"A", "B", "C", "D", "E", "F", "G", "H", "I", "J", "K", "L", "M", "N", "O", "P", "Q", "R", "S", "T", "U", "V", "W", "X", "Y", "Z">>

LowerLetters == <<"a", "b", "c", "d", "e", "f", "g", "h", "i", "j", "k", "l", "m", "n", "o", "p", "q", "r", "s", "t", "u", "v", "w", "x", "y", "z">>

Digits == {"0", "1", "2", "3", "4", "5", "6", "7", "8", "9"}

Range(s) == {s[i] : i \in DOMAIN s}

Uppers == Range(UpperLetters)

Lowers == Range(LowerLetters)

Letters == Uppers \cup Lowers

Max(S) == CHOOSE x \in S : \A y \in S : y <= x

Min(S) == CHOOSE x \in S : \A y \in S : x <= y

\* String.prototype.toLowerCase on one ASCII character; the case folding of
\* the regular expressions' i flag.
ToLower(c) ==
  IF c \in Uppers
    THEN LowerLetters[CHOOSE i \in DOMAIN UpperLetters : UpperLetters[i] = c]
    ELSE c

\* \w of a JavaScript regular expression.
IsWordChar(c) == c \in Letters \cup Digits \cup {"_"}

\* \s of a JavaScript regular expression, on the characters of the model.
IsSpace(c) == c \in {" ", "\t", "\n"}

\* \b at position p of s: between s[p-1] and s[p], the ends counting as
\* non-word characters.
WordBoundary(s, p) ==
  LET before == p - 1 \in DOMAIN s /\ IsWordChar(s[p - 1])
      after  == p \in DOMAIN s /\ IsWordChar(s[p])
  IN  before # after

\* The literal lit matches s at position p, case-insensitively (i flag).
MatchesAtCI(s, p, lit) ==
  /\ p >= 1
  /\ p + Len(lit) - 1 <= Len(s)
  /\ \A k \in DOMAIN lit : ToLower(s[p + k - 1]) = ToLower(lit[k])

\* String.prototype.startsWith (case-sensitive).
StartsWith(s, prefix) ==
  /\ Len(prefix) <= Len(s)
  /\ \A k \in DOMAIN prefix : s[k] = prefix[k]

\* /lit$/i
EndsWithCI(s, lit) ==
  Len(lit) <= Len(s) /\ MatchesAtCI(s, Len(s) - Len(lit) + 1, lit)

\* new RegExp(`\\b${keyword}\\b`, 'i').test(text)
WholeWordTest(keyword, text) ==
  \E p \in DOMAIN text :
    /\ MatchesAtCI(text, p, keyword)
    /\ WordBoundary(text, p)
    /\ WordBoundary(text, p + Len(keyword))

\* ------------------------------------------------------------ constants

NICHE_KEYWORDS ==
   <<<<"R", "o", "o", "f", "e", "r">>,
      <<"C", "h", "i", "r", "o", "p", "r", "a", "c", "t", "o", "r">>,
      <<"P", "l", "u", "m", "b", "e", "r">>,
      <<"E", "l", "e", "c", "t", "r", "i", "c", "i", "a", "n">>,
      <<"M", "a", "s", "s", "a", "g", "e">>,
      <<"T", "h", "e", "r", "a", "p", "i", "s", "t">>,
      <<"C", "o", "n", "t", "r", "a", "c", "t", "o", "r">>,
      <<"L", "a", "n", "d", "s", "c", "a", "p", "i", "n", "g">>,
      <<"C", "l", "e", "a", "n", "i", "n", "g">>,
      <<"C", "o", "n", "s", "u", "l", "t", "i", "n", "g">>>>

\* The alternation (Owner|Founder|...|Manager) of NAME_TITLE_REGEX.
LEADERSHIP_TITLES ==
   <<<<"O", "w", "n", "e", "r">>,
      <<"F", "o", "u", "n", "d", "e", "r">>,
      <<"C", "E", "O">>,
      <<"P", "r", "e", "s", "i", "d", "e", "n", "t">>,
      <<"P", "r", "i", "n", "c", "i", "p", "a", "l">>,
      <<"D", "i", "r", "e", "c", "t", "o", "r">>,
      <<"M", "a", "n", "a", "g", "e", "r">>>>

\* The alternation of the role test /^(info|contact|hello|support|admin)/i.
ROLE_PREFIXES ==
   <<<<"i", "n", "f", "o">>,
      <<"c", "o", "n", "t", "a", "c", "t">>,
      <<"h", "e", "l", "l", "o">>,
      <<"s", "u", "p", "p", "o", "r", "t">>,
      <<"a", "d", "m", "i", "n">>>>

\* The alternation of the asset filter /\.(png|jpg|jpeg|gif|svg|webp)$/i,
\* each with its leading dot.
IMAGE_EXTENSIONS ==
   <<<<".", "p", "n", "g">>,
      <<".", "j", "p", "g">>,
      <<".", "j", "p", "e", "g">>,
      <<".", "g", "i", "f">>,
      <<".", "s", "v", "g">>,
      <<".", "w", "e", "b", "p">>>>

HTTP_PREFIX == <<"h", "t", "t", "p", ":", "/", "/">>

HTTPS_PREFIX == <<"h", "t", "t", "p", "s", ":", "/", "/">>

\* ------------------------------------------------------- NAME_TITLE_REGEX
\* /([A-Z][a-z'-]+(?:\s+[A-Z][a-z'-]+)+)[\s,(A-circumflex)(middle dot)-]*\b(Owner|...|Manager)\b/i
\* matched as a backtracking engine matches it: leftmost start, every
\* quantifier greedy, the first alternative that lets the rest match.  ci is
\* the i flag, under which [A-Z] and [a-z] both match a letter of either case.

NameHead(c, ci) == IF ci THEN c \in Letters ELSE c \in Uppers

NameTail(c, ci) == (IF ci THEN c \in Letters ELSE c \in Lowers) \/ c \in {"'", "-"}

\* [\s,(A-circumflex)(middle dot)-] on the characters of the model.
IsSeparator(c) == IsSpace(c) \/ c \in {",", "-"}

NoMatch == [found |-> FALSE, nameStart |-> 0, nameEnd |-> 0,
            titleStart |-> 0, titleEnd |-> 0]

\* Of the attempts results[i], the successful one with the least i (the
\* leftmost start) ...
FirstFound(results) ==
  LET hits == {i \in DOMAIN results : results[i].found}
  IN  IF hits = {} THEN NoMatch ELSE results[Min(hits)]

\* ... and the one with the greatest i (a greedy quantifier tries the longest
\* first and gives back one position at a time).
LastFound(results) ==
  LET hits == {i \in DOMAIN results : results[i].found}
  IN  IF hits = {} THEN NoMatch ELSE results[Max(hits)]

\* Backtracking: the preferred attempt if it matched, else the other.
OrElse(preferred, other) == IF preferred.found THEN preferred ELSE other

\* The last positions a token [A-Z][a-z'-]+ starting at p can take.
TokenEnds(s, p, ci) ==
  IF p \in DOMAIN s /\ NameHead(s[p], ci)
    THEN {e \in (p + 1)..Len(s) : \A k \in (p + 1)..e : NameTail(s[k], ci)}
    ELSE {}

\* The last positions a run \s+ starting at p can take.
SpaceEnds(s, p) == {q \in p..Len(s) : \A k \in p..q : IsSpace(s[k])}

\* The last positions a run [\s,(A-circumflex)(middle dot)-]* starting at p
\* can take; p - 1 for the empty run.
SeparatorEnds(s, p) ==
  {q \in (p - 1)..Len(s) : \A k \in p..q : IsSeparator(s[k])}

\* The titles of the alternation that match at p between two \b.
TitlesAt(s, p) ==
  {i \in DOMAIN LEADERSHIP_TITLES :
     /\ WordBoundary(s, p)
     /\ MatchesAtCI(s, p, LEADERSHIP_TITLES[i])
     /\ WordBoundary(s, p + Len(LEADERSHIP_TITLES[i]))}

\* The match with name s[start..nameEnd] and the first of titles at
\* titleStart, if there is one.
TitleMatch(start, nameEnd, titleStart, titles) ==
  IF titles = {} THEN NoMatch
  ELSE [found |-> TRUE, nameStart |-> start, nameEnd |-> nameEnd,
        titleStart |-> titleStart,
        titleEnd |-> titleStart + Len(LEADERSHIP_TITLES[Min(titles)]) - 1]

\* [\s,(A-circumflex)(middle dot)-]*\b(Owner|...)\b from position p, the
\* name being s[start..p-1].
TitleAfter(s, start, p) ==
  LastFound([q \in SeparatorEnds(s, p) |->
               TitleMatch(start, p - 1, q + 1, TitlesAt(s, q + 1))])

RECURSIVE MoreTokens(_, _, _, _, _)
\* (?:\s+[A-Z][a-z'-]+)+ from position p with count iterations done: one
\* more iteration is tried first (greedy), then the rest of the pattern.
MoreTokens(s, start, p, count, ci) ==
  OrElse(LastFound([q \in SpaceEnds(s, p) |->
                      LastFound([e \in TokenEnds(s, q + 1, ci) |->
                                   MoreTokens(s, start, e + 1, count + 1, ci)])]),
         IF count >= 1 THEN TitleAfter(s, start, p) ELSE NoMatch)

\* The pattern from position start: its first token, then the rest.
MatchFrom(s, start, ci) ==
  LastFound([e \in TokenEnds(s, start, ci) |->
               MoreTokens(s, start, e + 1, 0, ci)])

\* text.match(regex) for a regex without the g flag: the leftmost match.
RegexMatch(s, ci) == FirstFound([i \in DOMAIN s |-> MatchFrom(s, i, ci)])

\* bodyText.match(NAME_TITLE_REGEX): the regex carries the i flag.
NAME_TITLE_REGEX(bodyText) == RegexMatch(bodyText, TRUE)

\* --------------------------------------------------------------- parseName

Trim(s) ==
  LET keep == {i \in DOMAIN s : ~IsSpace(s[i])}
  IN  IF keep = {} THEN <<>> ELSE SubSeq(s, Min(keep), Max(keep))

RECURSIVE SplitSpaces(_)
\* s.split(/\s+/)
SplitSpaces(s) ==
  LET spaces == {i \in DOMAIN s : IsSpace(s[i])}
  IN  IF spaces = {} THEN <<s>>
      ELSE LET i == Min(spaces)
               j == Max({q \in i..Len(s) : \A k \in i..q : IsSpace(s[k])})
           IN  <<SubSeq(s, 1, i - 1)>> \o SplitSpaces(SubSeq(s, j + 1, Len(s)))

RECURSIVE Join(_, _)
\* parts.join(sep)
Join(parts, sep) ==
  IF parts = <<>> THEN <<>>
  ELSE IF Len(parts) = 1 THEN parts[1]
  ELSE parts[1] \o sep \o Join(Tail(parts), sep)

\* Lines 47-49 on parts.
NameOfParts(parts) ==
  [firstName |-> parts[1],
   lastName  |-> IF Len(parts) > 1 THEN Join(Tail(parts), <<" ">>) ELSE <<>>]

parseName(fullName) == NameOfParts(SplitSpaces(Trim(fullName)))

\* ------------------------------------------------------------ JS values

\* undefined, for a field that holds text when it is set.
Undefined == <<"undefined">>

\* JavaScript truthiness of a string-or-undefined value.
Truthy(x) == x # Undefined /\ x # <<>>

\* ------------------------------------------------------------ page content
\* What fetchPageContent hands back: null, or the response text.  The text
\* is held by what the browser collaborators make of it: DOMParser's
\* doc.title and doc.body.innerText, the matches of EMAIL_REGEX over the raw
\* text in order of occurrence, whether the text is the empty string, and
\* whether normalisation/extraction raises on it.

Null == [kind |-> "null", empty |-> TRUE, title |-> <<>>, body |-> <<>>,
         emails |-> <<>>, throws |-> FALSE]

EmptyString == [kind |-> "text", empty |-> TRUE, title |-> <<>>, body |-> <<>>,
                emails |-> <<>>, throws |-> FALSE]

Page(title, body, emails) ==
  [kind |-> "text", empty |-> FALSE, title |-> title, body |-> body,
   emails |-> emails, throws |-> FALSE]

\* Faulty variant: a test for null alone.
Falsy_NullOnly(htmlContent) == htmlContent.kind = "null"

\* !htmlContent
Falsy(htmlContent) == htmlContent.kind = "null" \/ htmlContent.empty

\* ------------------------------------------------------------ extractEmails

IsAssetName(email) ==
  \E i \in DOMAIN IMAGE_EXTENSIONS : EndsWithCI(email, IMAGE_EXTENSIONS[i])

RECURSIVE Unique(_)
\* [...new Set(xs)]: first occurrences, in order.
Unique(xs) ==
  IF xs = <<>> THEN <<>>
  ELSE LET front == Unique(SubSeq(xs, 1, Len(xs) - 1))
           last  == xs[Len(xs)]
       IN  IF last \in Range(front) THEN front ELSE Append(front, last)

KeepEmail(email) == ~IsAssetName(email)

\* matches is text.match(EMAIL_REGEX) || [].
extractEmails(matches) == Unique(SelectSeq(matches, KeepEmail))

\* /^(info|contact|hello|support|admin)/i.test(e)
IsRoleEmail(e) ==
  \E i \in DOMAIN ROLE_PREFIXES : MatchesAtCI(e, 1, ROLE_PREFIXES[i])

\* Faulty variant: the first candidate, whatever its local part.
SelectEmail_FirstSeen(allEmails) ==
  IF Len(allEmails) > 0 THEN allEmails[1] ELSE <<>>

\* allEmails.find(IsRoleEmail), then the conditional of line 96.
SelectEmail(allEmails) ==
  LET hits == {i \in DOMAIN allEmails : IsRoleEmail(allEmails[i])}
      infoEmail == IF hits = {} THEN Undefined ELSE allEmails[Min(hits)]
  IN  IF Len(allEmails) > 0
        THEN (IF Truthy(infoEmail) THEN infoEmail ELSE allEmails[1])
        ELSE <<>>

\* ------------------------------------------------------------------- niche

RECURSIVE NicheFrom(_, _, _)
\* The for loop over NICHE_KEYWORDS from index k, with its break.
NicheFrom(k, titleText, bodyText) ==
  IF k > Len(NICHE_KEYWORDS) THEN <<>>
  ELSE IF \/ WholeWordTest(NICHE_KEYWORDS[k], titleText)
          \/ WholeWordTest(NICHE_KEYWORDS[k], bodyText)
         THEN NICHE_KEYWORDS[k]
         ELSE NicheFrom(k + 1, titleText, bodyText)

\* Faulty variant: the keyword that stands first in the body text.
FindNiche_FirstInText(titleText, bodyText) ==
  LET at(k) == {p \in DOMAIN bodyText :
                  /\ MatchesAtCI(bodyText, p, NICHE_KEYWORDS[k])
                  /\ WordBoundary(bodyText, p)
                  /\ WordBoundary(bodyText, p + Len(NICHE_KEYWORDS[k]))}
      found == {k \in DOMAIN NICHE_KEYWORDS : at(k) # {}}
  IN  IF found = {} THEN NicheFrom(1, titleText, <<>>)
      ELSE NICHE_KEYWORDS[CHOOSE k \in found :
                            \A j \in found : Min(at(k)) <= Min(at(j))]

FindNiche(titleText, bodyText) == NicheFrom(1, titleText, bodyText)

\* -------------------------------------------------------------------- owner

\* Lines 87-90 on the name parseName returned and the matched title.
OwnerFields(name, title) ==
  [ownerTitle |-> title, ownerFirstName |-> name.firstName,
   ownerLastName |-> name.lastName]

\* Lines 79-91 on the result of the match.
OwnerOfMatch(bodyText, nameMatch) ==
  IF nameMatch.found
    THEN OwnerFields(parseName(SubSeq(bodyText, nameMatch.nameStart,
                                      nameMatch.nameEnd)),
                     SubSeq(bodyText, nameMatch.titleStart, nameMatch.titleEnd))
    ELSE [ownerTitle |-> <<>>, ownerFirstName |-> <<>>, ownerLastName |-> <<>>]

\* Step "1. Find Owner Name and Title".
FindOwner(bodyText) == OwnerOfMatch(bodyText, NAME_TITLE_REGEX(bodyText))

\* ------------------------------------------------------------ findOwnerInfo

INVALID_WEBSITE_URL == "Invalid website URL"

FAILED_TO_FETCH == "Failed to fetch website"

EmptyResult(uncertainty) ==
  [ownerTitle |-> <<>>, ownerFirstName |-> <<>>, ownerLastName |-> <<>>,
   ownerEmail |-> <<>>, niche |-> <<>>, uncertainty |-> uncertainty]

NoResult ==
  [ownerTitle |-> Undefined, ownerFirstName |-> Undefined,
   ownerLastName |-> Undefined, ownerEmail |-> Undefined,
   niche |-> Undefined, uncertainty |-> "undefined"]

\* business.website || business.Website
ResolveWebsite(business) ==
  IF Truthy(business.website) THEN business.website ELSE business.Website

\* Faulty variant: the scheme test without its "://".
IsHttpUrl_SchemeOnly(website) == StartsWith(website, <<"h", "t", "t", "p">>)

IsHttpUrl(website) ==
  StartsWith(website, HTTP_PREFIX) \/ StartsWith(website, HTTPS_PREFIX)

\* The condition of line 65.
IsInvalidWebsite(website) == ~Truthy(website) \/ ~IsHttpUrl(website)

\* The object returned on lines 107-114.
ComposedResult(owner, ownerEmail, niche) ==
  [ownerTitle |-> owner.ownerTitle,
   ownerFirstName |-> owner.ownerFirstName,
   ownerLastName |-> owner.ownerLastName,
   ownerEmail |-> ownerEmail,
   niche |-> niche,
   uncertainty |-> ""]

\* Lines 75-114: parse, the three extractions, the composed result.
Extract(htmlContent) ==
  ComposedResult(FindOwner(htmlContent.body),
                 SelectEmail(extractEmails(htmlContent.emails)),
                 FindNiche(htmlContent.title, htmlContent.body))

\* One call of findOwnerInfo, up to its await: lines 63-70.
BeginCall(business) ==
  IF IsInvalidWebsite(ResolveWebsite(business))
    THEN [business |-> business, pc |-> "returned", fetchCalls |-> 0,
          htmlContent |-> Null, result |-> EmptyResult(INVALID_WEBSITE_URL)]
    ELSE [business |-> business, pc |-> "fetching", fetchCalls |-> 1,
          htmlContent |-> Null, result |-> NoResult]

\* The call from the answer of fetchPageContent on: lines 70-114.
ResumeCall(c, htmlContent) ==
  IF Falsy(htmlContent)
    THEN [c EXCEPT !.pc = "returned", !.htmlContent = htmlContent,
                   !.result = EmptyResult(FAILED_TO_FETCH)]
    ELSE IF htmlContent.throws
      THEN [c EXCEPT !.pc = "threw", !.htmlContent = htmlContent]
      ELSE [c EXCEPT !.pc = "returned", !.htmlContent = htmlContent,
                     !.result = Extract(htmlContent)]

\* ------------------------------------------------------------------ bounds

\* Rows of an uploaded file.
MaxRows == 2

\* Files uploaded in one session.
MaxUploads == 2

\* Clicks on Run/Resume in one session.
MaxRuns == 2

\* EMAIL_REGEX matches in a page.
MaxMatches == 3

\* Pieces a generated body text is put together from.
MaxPieces == 3

\* -------------------------------------------------------------------- state

VARIABLES
  call,          \* one findOwnerInfo call: business, pc, fetchCalls, htmlContent, result
  web,           \* what fetchPageContent answers for that call
  data,          \* App state: the rows
  status,        \* App state: ProcessingStatus
  error,         \* App state: the error banner
  fileName,      \* App state: the upload the rows came from, 0 for null
  isRunningRef,  \* isRunningRef.current
  parsing,       \* handleFileUpload calls awaiting parseFile
  tasks,         \* handleRun's per-row callbacks awaiting findOwnerInfo
  pendingRuns,   \* handleRun calls awaiting Promise.all
  faulted,       \* records whose findOwnerInfo call rejected
  fetchCount,    \* per record, the fetchPageContent calls made for it
  nUploads,      \* files uploaded so far
  nRuns,         \* handleRun calls so far
  stoppedRuns,   \* handleRun calls that were under way when handleStop ran
  completedBy    \* handleRun calls that executed line 316

callVars == <<call, web>>

appVars == <<data, status, error, fileName, isRunningRef, parsing, tasks,
             pendingRuns, faulted, fetchCount, nUploads, nRuns, stoppedRuns,
             completedBy>>

vars == <<call, web, data, status, error, fileName, isRunningRef, parsing,
          tasks, pendingRuns, faulted, fetchCount, nUploads, nRuns,
          stoppedRuns, completedBy>>

\* ------------------------------------------------------------------- inputs

W_FTP == <<"f", "t", "p", ":", "/", "/", "a", ".", "t", "e", "s", "t">>

W_HTTP == <<"h", "t", "t", "p", ":", "/", "/", "a", ".", "t", "e", "s", "t">>

W_HTTPS == <<"h", "t", "t", "p", "s", ":", "/", "/", "a", "c", "m", "e", ".", "t", "e", "s", "t">>

W_HTTPX == <<"h", "t", "t", "p", "x">>

W_UPPER == <<"H", "T", "T", "P", "S", ":", "/", "/", "a", ".", "t", "e", "s", "t">>

W_BARE == <<"w", "w", "w", ".", "a", ".", "t", "e", "s", "t">>

\* Values of a website column: missing, empty, and text.
WebsiteValues == {Undefined, <<>>, W_FTP, W_HTTP, W_HTTPS, W_HTTPX, W_UPPER, W_BARE}

Businesses == [website : WebsiteValues, Website : WebsiteValues]

AcmeBusiness == [website |-> W_HTTPS, Website |-> Undefined]

\* The page of the end-to-end scenario: title "About Acme - Roofer", body
\* "Jane Doe, Founder", emails info@acme.test and jane@acme.test.
PageAcme ==
  Page(<<"A", "b", "o", "u", "t", " ", "A", "c", "m", "e", " ", "-", " ", "R", "o", "o", "f", "e", "r">>,
       <<"J", "a", "n", "e", " ", "D", "o", "e", ",", " ", "F", "o", "u", "n", "d", "e", "r">>,
       <<<<"j", "a", "n", "e", "@", "a", "c", "m", "e", ".", "t", "e", "s", "t">>,
         <<"i", "n", "f", "o", "@", "a", "c", "m", "e", ".", "t", "e", "s", "t">>>>)

\* Markup with nothing to extract.
PageBare == Page(<<>>, <<"W", "e", "l", "c", "o", "m", "e">>, <<>>)

\* Content on which parsing/extraction raises.
PageThrows == [PageBare EXCEPT !.throws = TRUE]

SampleWeb == {Null, EmptyString, PageAcme, PageBare, PageThrows}

EmailPool ==
  {<<"j", "a", "n", "e", "@", "x", ".", "i", "o">>,
    <<"b", "o", "b", "@", "x", ".", "i", "o">>,
    <<"i", "n", "f", "o", "@", "x", ".", "i", "o">>,
    <<"H", "e", "l", "l", "o", "@", "x", ".", "i", "o">>,
    <<"m", "y", "i", "n", "f", "o", "@", "x", ".", "i", "o">>,
    <<"a", "d", "m", "i", "n", "i", "s", "t", "r", "a", "t", "o", "r", "@", "x", ".", "i", "o">>,
    <<"l", "o", "g", "o", "@", "2", "x", ".", "P", "N", "G">>}

NichePieces ==
  {<<"P", "l", "u", "m", "b", "e", "r">>,
    <<"e", "l", "e", "c", "t", "r", "i", "c", "i", "a", "n">>,
    <<"R", "O", "O", "F", "E", "R">>,
    <<" ">>,
    <<"s">>,
    <<"_">>}

OwnerPieces ==
  {<<"J", "o", "h", "n", " ">>,
    <<"M", "i", "c", "h", "a", "e", "l", " ">>,
    <<"S", "m", "i", "t", "h", ",", " ">>,
    <<"O", "'", "N", "e", "i", "l", " ">>,
    <<"m", "e", "e", "t", " ">>,
    <<"o", "u", "r", " ">>,
    <<"O", "w", "n", "e", "r">>,
    <<"o", "w", "n", "e", "r">>,
    <<"c", "e", "o", ".">>}

\* Sequences over S of length at most n.
SeqsUpTo(S, n) == UNION {[1..k -> S] : k \in 0..n}

RECURSIVE Concat(_)
Concat(pieces) ==
  IF pieces = <<>> THEN <<>> ELSE Head(pieces) \o Concat(Tail(pieces))

Texts(pieces) == {Concat(ps) : ps \in SeqsUpTo(pieces, MaxPieces)}

\* --------------------------------------------- one call of findOwnerInfo

\* The records a file can hold: <<upload, id>>.
Keys == (1..MaxUploads) \X (0..(MaxRows - 1))

NoKey == <<0, 0>>

AppInit ==
  /\ data = <<>>
  /\ status = "idle"
  /\ error = "null"
  /\ fileName = 0
  /\ isRunningRef = FALSE
  /\ parsing = {}
  /\ tasks = {}
  /\ pendingRuns = {}
  /\ faulted = {}
  /\ fetchCount = [k \in Keys |-> 0]
  /\ nUploads = 0
  /\ nRuns = 0
  /\ stoppedRuns = {}
  /\ completedBy = {}

NewCall(business) ==
  [business |-> business, pc |-> "start", fetchCalls |-> 0,
   htmlContent |-> Null, result |-> NoResult]

CallInit(businesses, answers) ==
  /\ call \in {NewCall(b) : b \in businesses}
  /\ web \in answers
  /\ AppInit

\* findOwnerInfo(business) runs to its await (or to its first return).
FindOwnerInfoCalled ==
  /\ call.pc = "start"
  /\ call' = BeginCall(call.business)
  /\ UNCHANGED <<web, appVars>>

\* fetchPageContent settles and the call runs to its end.
FetchSettled ==
  /\ call.pc = "fetching"
  /\ call' = ResumeCall(call, web)
  /\ UNCHANGED <<web, appVars>>

CallNext == FindOwnerInfoCalled \/ FetchSettled

\* Any record against any answer of the fetch.
SpecEnrich == CallInit(Businesses, SampleWeb) /\ [][CallNext]_vars

\* A valid record against pages that differ in their email matches.
SpecEmail ==
  /\ CallInit({AcmeBusiness},
              {Page(<<>>, <<>>, m) : m \in SeqsUpTo(EmailPool, MaxMatches)})
  /\ [][CallNext]_vars

\* A valid record against pages that differ in title and body keywords.
SpecNiche ==
  /\ CallInit({AcmeBusiness},
              {Page(t, b, <<>>) : t \in NichePieces \cup {<<>>},
                                  b \in Texts(NichePieces)})
  /\ [][CallNext]_vars

\* A valid record against pages that differ in the names and titles of the body.
SpecOwner ==
  /\ CallInit({AcmeBusiness}, {Page(<<>>, b, <<>>) : b \in Texts(OwnerPieces)})
  /\ [][CallNext]_vars

\* ---------------------------------------------------------------- parseFile

\* Website columns of the files of the batch model: no website, a valid URL.
BatchWebsites == {Undefined, W_HTTPS}

\* A file, by the website cell of each of its data rows.
Files == SeqsUpTo(BatchWebsites, MaxRows)

\* A page with a contact address and nothing else to extract.
PageContact == Page(<<>>, <<>>, <<<<"i", "n", "f", "o", "@", "a", "c", "m", "e", ".", "t", "e", "s", "t">>>>)

\* Markup without text.
PageBlank == Page(<<>>, <<>>, <<>>)

\* What the fetch answers in the batch model: absent, a page that yields an
\* email, a page that yields nothing, content on which extraction raises.
BatchWeb == {Null, PageContact, PageBlank, [PageBlank EXCEPT !.throws = TRUE]}

\* The row parseFile makes of the data row at index (lines 40-41).  src, the
\* upload the row came from, and resultOf, the record whose result was last
\* merged into the row, are history fields: no code reads them.
NewRow(src, index, website) ==
  [id |-> index, src |-> src, website |-> website, Website |-> Undefined,
   status |-> "Pending",
   ownerTitle |-> Undefined, ownerFirstName |-> Undefined,
   ownerLastName |-> Undefined, ownerEmail |-> Undefined,
   niche |-> Undefined, uncertainty |-> "undefined", resultOf |-> NoKey]

\* The rows parseFile resolves with; the filter of lines 42-46 keeps every
\* row, since each carries the status it was just given.
parseFile(src, file) == [i \in 1..Len(file) |-> NewRow(src, i - 1, file[i])]

\* -------------------------------------------------------------- App handlers

Key(row) == <<row.src, row.id>>

\* businessToProcess: the row as handleRun's closure holds it.
Snapshot(row) ==
  [id |-> row.id, src |-> row.src, website |-> row.website,
   Website |-> row.Website]

\* A null result of findOwnerInfo (its declared type allows one).
NullResult == [NoResult EXCEPT !.uncertainty = "null"]

\* The updater of lines 297-309 on one row.
MergeRow(row, business, result) ==
  IF row.id = business.id
    THEN IF result # NullResult
           THEN [row EXCEPT
                   !.ownerTitle = result.ownerTitle,
                   !.ownerFirstName = result.ownerFirstName,
                   !.ownerLastName = result.ownerLastName,
                   !.ownerEmail = result.ownerEmail,
                   !.niche = result.niche,
                   !.uncertainty = result.uncertainty,
                   !.status = IF \/ Truthy(result.ownerFirstName)
                                 \/ Truthy(result.ownerLastName)
                                 \/ Truthy(result.ownerEmail)
                                THEN "Found" ELSE "Not Found",
                   !.resultOf = <<business.src, business.id>>]
           ELSE [row EXCEPT !.status = "Error",
                            !.resultOf = <<business.src, business.id>>]
    ELSE row

\* setData(prevData => prevData.map(...)) of lines 296-310.
MergeResult(rows, business, result) ==
  [i \in DOMAIN rows |-> MergeRow(rows[i], business, result)]

RECURSIVE MergeReturned(_, _)
\* The updaters of the calls that returned without awaiting, in row order.
MergeReturned(rows, calls) ==
  IF calls = <<>> THEN rows
  ELSE MergeReturned(MergeResult(rows, Head(calls).business, Head(calls).result),
                     Tail(calls))

\* handleFileUpload up to its await of parseFile (lines 241-247).  The upload
\* control is disabled while status is RUNNING (line 335).
HandleFileUpload(file) ==
  /\ status # "running"
  /\ nUploads < MaxUploads
  /\ status' = "idle"
  /\ error' = "null"
  /\ data' = <<>>
  /\ fileName' = 0
  /\ parsing' = parsing \cup {[src |-> nUploads + 1, file |-> file]}
  /\ nUploads' = nUploads + 1
  /\ UNCHANGED <<isRunningRef, tasks, pendingRuns, faulted, fetchCount, nRuns,
                 stoppedRuns, completedBy, callVars>>

\* parseFile settles: it rejects for a file without data rows
\* (fileUtils.ts lines 48-51), and handleFileUpload goes on (lines 248-269).
FileParsed(p) ==
  /\ p \in parsing
  /\ parsing' = parsing \ {p}
  /\ IF Len(p.file) = 0
       THEN /\ error' = "No valid data found in the file."
            /\ UNCHANGED <<data, fileName>>
       ELSE /\ data' = parseFile(p.src, p.file)
            /\ fileName' = p.src
            /\ UNCHANGED error
  /\ UNCHANGED <<status, isRunningRef, tasks, pendingRuns, faulted, fetchCount,
                 nUploads, nRuns, stoppedRuns, completedBy, callVars>>

\* handleStop (lines 272-275); the Stop button shows while status is RUNNING
\* and there is data (lines 346-361).
HandleStop ==
  /\ status = "running"
  /\ Len(data) > 0
  /\ isRunningRef' = FALSE
  /\ status' = "stopped"
  /\ stoppedRuns' = stoppedRuns \cup pendingRuns
  /\ UNCHANGED <<data, error, fileName, parsing, tasks, pendingRuns, faulted,
                 fetchCount, nUploads, nRuns, completedBy, callVars>>

\* Lines 279-317 of handleRun with the microtasks it leaves behind, on the
\* findOwnerInfo calls begun for the rows that are Pending or Processing.
\* A call that returned at once (an invalid website) has its updater applied;
\* the others await their fetch.  If none awaits, Promise.all resolves at once
\* and lines 315-317 run.
RunCalls(run, calls) ==
  /\ isRunningRef' = TRUE
  /\ error' = "null"
  /\ data' = MergeReturned(
               [i \in DOMAIN data |->
                  IF data[i].status = "Pending"
                    THEN [data[i] EXCEPT !.status = "Processing"]
                    ELSE data[i]],
               SelectSeq(calls, LAMBDA c : c.pc = "returned"))
  /\ tasks' = tasks \cup {[run |-> run, call |-> calls[i]] :
                            i \in {j \in DOMAIN calls : calls[j].pc = "fetching"}}
  /\ fetchCount' =
       [k \in Keys |->
          fetchCount[k]
            + Cardinality({j \in DOMAIN calls :
                             /\ calls[j].pc = "fetching"
                             /\ k = <<calls[j].business.src, calls[j].business.id>>})]
  /\ IF \A j \in DOMAIN calls : calls[j].pc # "fetching"
       THEN /\ status' = "complete"
            /\ completedBy' = completedBy \cup {run}
            /\ UNCHANGED pendingRuns
       ELSE /\ status' = "running"
            /\ pendingRuns' = pendingRuns \cup {run}
            /\ UNCHANGED completedBy
  /\ nRuns' = run

\* The rows handleRun filters on line 290, as its closure holds them.
OpenRows(rows) ==
  SelectSeq(rows, LAMBDA row : row.status \in {"Pending", "Processing"})

\* The calls of findOwnerInfo the callbacks of line 291 make, each run to its
\* await: every callback passes the test of line 292, the ref having just
\* been set on line 280.
CallsFor(rows) == [i \in DOMAIN rows |-> BeginCall(Snapshot(rows[i]))]

\* handleRun (lines 277-318): the Run / Resume button shows while status is
\* not RUNNING and there is data.
HandleRun ==
  /\ status # "running"
  /\ Len(data) > 0
  /\ nRuns < MaxRuns
  /\ RunCalls(nRuns + 1, CallsFor(OpenRows(data)))
  /\ UNCHANGED <<fileName, parsing, faulted, nUploads, stoppedRuns, callVars>>

\* t is the last callback its handleRun call still awaits (line 313).
LastOfRun(t) ==
  t.run \in pendingRuns /\ ~\E u \in tasks \ {t} : u.run = t.run

\* The callback of one row from the return of findOwnerInfo on (lines
\* 294-310), c being the call at its end.  If findOwnerInfo raised, the
\* callback's promise rejects, and with it Promise.all and handleRun (nothing
\* catches it).  If this was the last callback handleRun awaited, lines
\* 313-317 run.
CallbackResumed(t, c) ==
  /\ tasks' = tasks \ {t}
  /\ IF c.pc = "threw"
       THEN /\ faulted' = faulted \cup {<<c.business.src, c.business.id>>}
            /\ pendingRuns' = pendingRuns \ {t.run}
            /\ UNCHANGED <<data, status, completedBy>>
       ELSE /\ data' = MergeResult(data, c.business, c.result)
            /\ pendingRuns' = IF LastOfRun(t) THEN pendingRuns \ {t.run}
                                               ELSE pendingRuns
            /\ status' = IF LastOfRun(t) /\ isRunningRef THEN "complete"
                                                         ELSE status
            /\ completedBy' = IF LastOfRun(t) /\ isRunningRef
                                THEN completedBy \cup {t.run}
                                ELSE completedBy
            /\ UNCHANGED faulted
  /\ UNCHANGED <<error, fileName, isRunningRef, parsing, fetchCount, nUploads,
                 nRuns, stoppedRuns, callVars>>

\* fetchPageContent settles for one callback of handleRun: findOwnerInfo runs
\* to its end and the callback goes on.
TaskSettled(t, htmlContent) ==
  /\ t \in tasks
  /\ CallbackResumed(t, ResumeCall(t.call, htmlContent))

Init == call = NewCall(AcmeBusiness) /\ web = Null /\ AppInit

Next ==
  \/ \E file \in Files : HandleFileUpload(file)
  \/ \E p \in parsing : FileParsed(p)
  \/ HandleRun
  \/ HandleStop
  \/ \E t \in tasks, htmlContent \in BatchWeb : TaskSettled(t, htmlContent)

Spec == Init /\ [][Next]_vars

\* ------------------------------------------------------------------ claims

\* C1: a record whose website (website, else Website) is missing, empty or
\* does not begin with http:// or https:// gets the all-empty result with
\* uncertainty "Invalid website URL", and its call makes no fetch.
C1_InvalidWebsiteNoFetch ==
  LET b == call.business
      w == IF b.website \notin {Undefined, <<>>} THEN b.website ELSE b.Website
      missing == w \in {Undefined, <<>>}
      http  == Len(w) >= 7 /\ SubSeq(w, 1, 7) = HTTP_PREFIX
      https == Len(w) >= 8 /\ SubSeq(w, 1, 8) = HTTPS_PREFIX
  IN  (call.pc # "start" /\ (missing \/ ~(http \/ https)))
        => /\ call.pc = "returned"
           /\ call.result = EmptyResult(INVALID_WEBSITE_URL)
           /\ call.fetchCalls = 0

\* C1 witness: website is ftp://..., Website is a valid https URL; the call
\* returned without a fetch.
C1_Witness ==
  /\ call.pc = "returned"
  /\ call.business.website = W_FTP
  /\ call.business.Website = W_HTTPS
  /\ call.result.uncertainty = INVALID_WEBSITE_URL
  /\ call.fetchCalls = 0

\* C2 as amended: when the fetch answers absent or the empty string the call
\* returns (does not raise) the all-empty result with uncertainty "Failed to
\* fetch website"; when it answers non-empty content and the call returns,
\* the uncertainty is the empty string.
C2_FailedOrEmptyFetch ==
  (call.pc \in {"returned", "threw"} /\ call.fetchCalls = 1)
    => /\ (call.htmlContent.kind = "null" \/ call.htmlContent.empty)
            => /\ call.pc = "returned"
               /\ call.result = EmptyResult(FAILED_TO_FETCH)
       /\ (call.htmlContent.kind = "text" /\ ~call.htmlContent.empty
           /\ call.pc = "returned")
            => call.result.uncertainty = ""

\* C2 witness: the fetch answered absent and the call returned.
C2_Witness ==
  /\ call.pc = "returned"
  /\ call.fetchCalls = 1
  /\ call.htmlContent.kind = "null"
  /\ call.result.uncertainty = FAILED_TO_FETCH

\* C2 as stated: absent gives "Failed to fetch website", and whenever the
\* fetch answers content (a string) the returned uncertainty is empty.
C2_Original ==
  (call.pc \in {"returned", "threw"} /\ call.fetchCalls = 1)
    => /\ call.htmlContent.kind = "null"
            => /\ call.pc = "returned"
               /\ call.result = EmptyResult(FAILED_TO_FETCH)
       /\ (call.htmlContent.kind = "text" /\ call.pc = "returned")
            => call.result.uncertainty = ""

\* The claims' own reading of "case-insensitively": text folded to lower case.
Lowered(s) == [i \in DOMAIN s |-> ToLower(s[i])]

\* The local part of e starts with one of info, contact, hello, support, admin.
HasRolePrefix(e) ==
  \E i \in DOMAIN ROLE_PREFIXES :
    /\ Len(e) >= Len(ROLE_PREFIXES[i])
    /\ Lowered(SubSeq(e, 1, Len(ROLE_PREFIXES[i]))) = ROLE_PREFIXES[i]

\* C6: over the ordered unique candidates, ownerEmail is the first candidate
\* with a role prefix; without one, the first candidate; without candidates,
\* the empty string.
C6_EmailSelection ==
  (call.pc = "returned" /\ call.fetchCalls = 1 /\ ~call.htmlContent.empty)
    => LET c == extractEmails(call.htmlContent.emails)
           e == call.result.ownerEmail
           roles == {i \in DOMAIN c : HasRolePrefix(c[i])}
       IN  /\ c = <<>> => e = <<>>
           /\ roles # {} => \E i \in roles : /\ e = c[i]
                                             /\ \A j \in roles : i <= j
           /\ (c # <<>> /\ roles = {}) => e = c[1]

\* C6 witness: the first candidate has no role prefix, a later one has, and
\* the later one is selected.
C6_Witness ==
  /\ call.pc = "returned"
  /\ call.fetchCalls = 1
  /\ LET c == extractEmails(call.htmlContent.emails)
     IN  /\ Len(c) >= 2
         /\ ~HasRolePrefix(c[1])
         /\ call.result.ownerEmail # c[1]
         /\ HasRolePrefix(call.result.ownerEmail)

\* keyword occurs in text as a whole word, in any casing.
OccursAsWord(keyword, text) ==
  \E i \in DOMAIN text :
    LET j == i + Len(keyword) - 1
    IN  /\ j <= Len(text)
        /\ Lowered(SubSeq(text, i, j)) = Lowered(keyword)
        /\ (i = 1 \/ ~IsWordChar(text[i - 1]))
        /\ (j = Len(text) \/ ~IsWordChar(text[j + 1]))

\* C7: niche is the earliest keyword of the list that occurs as a whole word
\* in the title or the body, wherever the keywords stand in the text, and the
\* empty string when none occurs.
C7_NichePriority ==
  (call.pc = "returned" /\ call.fetchCalls = 1 /\ ~call.htmlContent.empty)
    => LET page == call.htmlContent
           occurs == {k \in DOMAIN NICHE_KEYWORDS :
                        \/ OccursAsWord(NICHE_KEYWORDS[k], page.title)
                        \/ OccursAsWord(NICHE_KEYWORDS[k], page.body)}
       IN  /\ occurs = {} => call.result.niche = <<>>
           /\ occurs # {} =>
                \E k \in occurs : /\ call.result.niche = NICHE_KEYWORDS[k]
                                  /\ \A j \in occurs : k <= j

\* C7 witness: the body reads "electrician Plumber"; the niche is Plumber,
\* the earlier keyword of the list, though it stands later in the text.
C7_Witness ==
  /\ call.pc = "returned"
  /\ call.htmlContent.title = <<>>
  /\ call.htmlContent.body = <<"e", "l", "e", "c", "t", "r", "i", "c", "i", "a", "n", " ", "P", "l", "u", "m", "b", "e", "r">>
  /\ call.result.niche = <<"P", "l", "u", "m", "b", "e", "r">>

\* C8: without a span of two or more capitalized words followed by a title
\* keyword in the body, ownerTitle, ownerFirstName and ownerLastName are all
\* empty; with a match, ownerFirstName is the first token of the matched span
\* and ownerLastName the remaining tokens joined by single spaces.
C8_OwnerNeedsCapitalizedName ==
  (call.pc = "returned" /\ call.fetchCalls = 1 /\ ~call.htmlContent.empty)
    => LET bodyText == call.htmlContent.body
           r == call.result
           capitalized == RegexMatch(bodyText, FALSE)
           m == NAME_TITLE_REGEX(bodyText)
           tokens == SplitSpaces(SubSeq(bodyText, m.nameStart, m.nameEnd))
       IN  /\ ~capitalized.found =>
                /\ r.ownerTitle = <<>>
                /\ r.ownerFirstName = <<>>
                /\ r.ownerLastName = <<>>
           /\ m.found =>
                /\ r.ownerFirstName = tokens[1]
                /\ r.ownerLastName = Join(Tail(tokens), <<" ">>)

TerminalStatuses == {"Found", "Not Found", "Error"}

\* C3: a finished row whose fetch failed has status Error, and a row ends in
\* Not Found only after a fetch and parse that succeeded and extracted no
\* owner first name, last name or email.  Stated over the rows whose record
\* was fetched; "Failed to fetch website" marks the failed fetch.
C3_FetchFailureIsError ==
  \A i \in DOMAIN data :
    LET row == data[i]
    IN  (row.status \in TerminalStatuses /\ fetchCount[Key(row)] > 0)
          => /\ row.uncertainty = FAILED_TO_FETCH => row.status = "Error"
             /\ row.status = "Not Found" =>
                  /\ row.uncertainty = ""
                  /\ ~Truthy(row.ownerFirstName)
                  /\ ~Truthy(row.ownerLastName)
                  /\ ~Truthy(row.ownerEmail)

\* C4: a row whose findOwnerInfo call raised during normalisation/extraction
\* has status Error (it is not left in Processing).
C4_FaultMappedToError ==
  \A i \in DOMAIN data :
    Key(data[i]) \in faulted => data[i].status = "Error"

\* C5: the fetch collaborator is invoked at most once for every record,
\* across Run, Stop and Resume.
C5_SingleFetchPerRecord == \A k \in Keys : fetchCount[k] <= 1

\* The status and the enrichment fields of a row.
Enrichment(row) ==
  <<row.status, row.ownerTitle, row.ownerFirstName, row.ownerLastName,
    row.ownerEmail, row.niche, row.uncertainty>>

\* Pending, then Processing, then a terminal status.
Stage(st) == IF st = "Pending" THEN 0 ELSE IF st = "Processing" THEN 1 ELSE 2

\* C9: within the rows of one uploaded file, under Run, Stop, Resume and the
\* arrival of results, a row in a terminal status keeps its status and its
\* enrichment fields, and a status only moves forward along Pending ->
\* Processing -> a terminal status (one handler may take a row through
\* Processing to its terminal status).
C9_TerminalIsFinal ==
  [][\A i \in DOMAIN data :
       (nUploads' = 1 /\ i \in DOMAIN data' /\ data'[i].src = data[i].src)
         => /\ data[i].status \in TerminalStatuses
                 => Enrichment(data'[i]) = Enrichment(data[i])
            /\ Stage(data'[i].status) >= Stage(data[i].status)]_vars

\* C10: every row holds either no result or the result computed from that
\* very record; a result computed from a record of an earlier file is never
\* written into a row of a later file.
C10_ResultMergedIntoOwnRecord ==
  \A i \in DOMAIN data :
    data[i].resultOf \in {NoKey, Key(data[i])}

\* C11: with one uploaded file, while status is COMPLETE no callback of
\* handleRun is still awaiting findOwnerInfo and every row has a terminal
\* status; and no handleRun call that was under way when handleStop ran has
\* set status to COMPLETE.
C11_CompleteMeansAllDone ==
  nUploads <= 1
    => /\ status = "complete"
            => /\ tasks = {}
               /\ \A i \in DOMAIN data : data[i].status \in TerminalStatuses
       /\ completedBy \cap stoppedRuns = {}

=============================================================================
